---- MODULE Spec2Model ----
(***************************************************************************)
(* Model of the file registry of jogou_baixou_backend                      *)
(* (src/src/utils/fileStorage.ts), the request handlers that drive it      *)
(* (src/src/controllers/fileController.ts) and the cleanup task started    *)
(* in src/src/index.ts.                                                    *)
(*                                                                         *)
(* Node runs every handler to completion on one thread, so each            *)
(* synchronous function of the source is one atomic action.  The file      *)
(* system is the environment: every fs call that can throw takes its       *)
(* outcome as an input of the action.                                      *)
(*                                                                         *)
(* Time is counted in ticks; one tick stands for the 5 minute              *)
(* lifetime that uploadFile gives a record.                                *)
(***************************************************************************)
EXTENDS Integers, Sequences, FiniteSets, TLC

\* ---------------------------------------------------------------- bounds
MaxIds == 2
MaxPaths == 2
MaxTokens == 1
MaxTime == 2
MaxDownloads == 1
MaxStreams == 1

\* expiryDate = Date.now() + 5 * 60 * 1000, in ticks
TTL == 1

Ids == 1..MaxIds
Paths == 1..MaxPaths
Tokens == 1..MaxTokens

\* a FileInfo field that is undefined (accessToken?, downloadCount?)
Undefined == -1

\* crypto.randomBytes(32).toString('hex') has 64 characters; the model's
\* strings are scaled down to TokenLen characters over the alphabet Hex
TokenLen == 1

Hex == 0..MaxTokens

\* the string a stored access token is: the value k written out
toHex(k) == [i \in 1..TokenLen |-> k]

\* the strings a caller can present as a token: shorter, as long, longer
Presented == UNION {[1..n -> Hex] : n \in 0..(TokenLen + 1)}

VARIABLES
  fileInfoStorage,  \* the in-memory Record<string, FileInfo>
  storageFile,      \* file-info.json: <<>> when it does not exist, else <<document>>
  disk,             \* the paths of the content files present in the upload directory
  uploadDirExists,  \* whether config.upload.uploadPath exists
  now,              \* the clock read by new Date() / Date.now()
  pending,          \* req.file objects stored by multer whose handler has not run yet
  created,          \* history: the FileInfo built for every id uploadFile generated
  usedPaths,        \* history: every filename multer generated
  streams,          \* read streams opened by downloadFile and not finished
  delivered,        \* history: per id, the number of streams that were delivered
  scheduler,        \* how far the callback of app.listen has come
  obs               \* the last operation, its inputs and what it returned

vars == <<fileInfoStorage, storageFile, disk, uploadDirExists, now, pending,
          created, usedPaths, streams, delivered, scheduler, obs>>

\* ------------------------------------------------------- maps and the fs
EmptyMap == [i \in {} |-> 0]

Put(m, k, v) == [i \in (DOMAIN m) \cup {k} |-> IF i = k THEN v ELSE m[i]]

Remove(m, k) == [i \in (DOMAIN m) \ {k} |-> m[i]]

\* the part of the machine state the registry functions read and write
World == [mem |-> fileInfoStorage, file |-> storageFile, disk |-> disk,
          dir |-> uploadDirExists]

\* Date.prototype.toJSON: a Date is written as its ISO string
toISOString(t) == <<"iso", t>>

\* JSON.stringify(fileInfoStorage, null, 2)
stringify(mem) ==
  [i \in DOMAIN mem |->
     [mem[i] EXCEPT !.uploadDate = toISOString(mem[i].uploadDate),
                    !.expiryDate = toISOString(mem[i].expiryDate)]]

\* fs.writeFileSync(storageFilePath, JSON.stringify(fileInfoStorage)):
\* throws when the directory is missing or when the environment says so
writeFileSync(w, ok) ==
  IF ok /\ w.dir
    THEN [w |-> [w EXCEPT !.file = <<stringify(w.mem)>>], threw |-> FALSE]
    ELSE [w |-> w, threw |-> TRUE]

existsSync(w, path) == path \in w.disk

\* ------------------------------------------------------------ registry
isFileExpired(fileInfo, t) == t > fileInfo.expiryDate

saveFileInfo(w, fileInfo, token, writeOk, mkdirOk, retryOk) ==
  LET fi1 == IF fileInfo.accessToken = Undefined
               THEN [fileInfo EXCEPT !.accessToken = token] ELSE fileInfo
      fi2 == IF fi1.downloadCount = Undefined
               THEN [fi1 EXCEPT !.downloadCount = 0] ELSE fi1
      w1 == [w EXCEPT !.mem = Put(w.mem, fi2.id, fi2)]
      first == writeFileSync(w1, writeOk)
  IN  IF ~first.threw
        THEN [w |-> first.w, threw |-> FALSE, writes |-> 1, wthrew |-> FALSE]
      ELSE IF w1.dir
        THEN [w |-> w1, threw |-> FALSE, writes |-> 1, wthrew |-> TRUE]
      ELSE IF ~mkdirOk
        THEN [w |-> w1, threw |-> TRUE, writes |-> 1, wthrew |-> TRUE]
      ELSE LET second == writeFileSync([w1 EXCEPT !.dir = TRUE], retryOk)
           IN  [w |-> second.w, threw |-> second.threw, writes |-> 2,
                wthrew |-> TRUE]

\* ids are modelled as numbers: the well-formed UUID strings are 1..MaxIds,
\* 0 stands for a string the regular expression rejects
validIdRegex(id) == id >= 1

\* getFileInfoById as it would be if the missing-content branch only
\* returned null and left the record in the map
getFileInfoById_NoHeal(w, id, t, writeOk) ==
  IF ~validIdRegex(id)
    THEN [w |-> w, ret |-> "null", writes |-> 0, wthrew |-> FALSE,
          touched |-> FALSE]
  ELSE IF id \notin DOMAIN w.mem
    THEN [w |-> w, ret |-> "null", writes |-> 0, wthrew |-> FALSE,
          touched |-> TRUE]
  ELSE IF isFileExpired(w.mem[id], t) \/ ~existsSync(w, w.mem[id].path)
    THEN [w |-> w, ret |-> "null", writes |-> 0, wthrew |-> FALSE,
          touched |-> TRUE]
  ELSE [w |-> w, ret |-> "info", writes |-> 0, wthrew |-> FALSE,
        touched |-> TRUE]

\* getFileInfoById as it would be with the format test placed after the
\* map lookup
getFileInfoById_LateRegex(w, id, t, writeOk) ==
  IF id \notin DOMAIN w.mem \/ ~validIdRegex(id)
    THEN [w |-> w, ret |-> "null", writes |-> 0, wthrew |-> FALSE,
          touched |-> TRUE]
  ELSE IF isFileExpired(w.mem[id], t)
    THEN [w |-> w, ret |-> "null", writes |-> 0, wthrew |-> FALSE,
          touched |-> TRUE]
  ELSE IF ~existsSync(w, w.mem[id].path)
    THEN LET wr == writeFileSync([w EXCEPT !.mem = Remove(w.mem, id)], writeOk)
         IN  [w |-> wr.w, ret |-> "null", writes |-> 1, wthrew |-> wr.threw,
              touched |-> TRUE]
  ELSE [w |-> w, ret |-> "info", writes |-> 0, wthrew |-> FALSE,
        touched |-> TRUE]

\* touched: the call read fileInfoStorage or the file system
getFileInfoById(w, id, t, writeOk) ==
  IF ~validIdRegex(id)
    THEN [w |-> w, ret |-> "null", writes |-> 0, wthrew |-> FALSE,
          touched |-> FALSE]
  ELSE IF id \notin DOMAIN w.mem
    THEN [w |-> w, ret |-> "null", writes |-> 0, wthrew |-> FALSE,
          touched |-> TRUE]
  ELSE IF isFileExpired(w.mem[id], t)
    THEN [w |-> w, ret |-> "null", writes |-> 0, wthrew |-> FALSE,
          touched |-> TRUE]
  ELSE IF ~existsSync(w, w.mem[id].path)
    THEN LET wr == writeFileSync([w EXCEPT !.mem = Remove(w.mem, id)], writeOk)
         IN  [w |-> wr.w, ret |-> "null", writes |-> 1, wthrew |-> wr.threw,
              touched |-> TRUE]
  ELSE [w |-> w, ret |-> "info", writes |-> 0, wthrew |-> FALSE,
        touched |-> TRUE]

\* deleteFileInfo as it would be with the storage rewrite placed after the
\* if block instead of inside it
deleteFileInfo_AlwaysWrite(w, id, unlinkOk, writeOk) ==
  LET path == w.mem[id].path
      tried == IF id \in DOMAIN w.mem /\ existsSync(w, path) THEN {path} ELSE {}
      w1 == IF unlinkOk THEN [w EXCEPT !.disk = w.disk \ tried] ELSE w
      w2 == [w1 EXCEPT !.mem = Remove(w1.mem, id)]
      wr == writeFileSync(w2, writeOk)
  IN  [w |-> wr.w, unlinks |-> tried, writes |-> 1, threw |-> FALSE,
       wthrew |-> wr.threw, uthrew |-> tried # {} /\ ~unlinkOk]

\* deleteFileInfo as it would be without the try/catch around unlinkSync
deleteFileInfo_NoCatch(w, id, unlinkOk, writeOk) ==
  IF id \in DOMAIN w.mem
    THEN LET path == w.mem[id].path
             tried == IF existsSync(w, path) THEN {path} ELSE {}
             w1 == IF unlinkOk THEN [w EXCEPT !.disk = w.disk \ tried] ELSE w
             w2 == [w1 EXCEPT !.mem = Remove(w1.mem, id)]
             wr == writeFileSync(w2, writeOk)
         IN  IF tried # {} /\ ~unlinkOk
               THEN [w |-> w, unlinks |-> tried, writes |-> 0, threw |-> TRUE,
                     wthrew |-> FALSE, uthrew |-> TRUE]
               ELSE [w |-> wr.w, unlinks |-> tried, writes |-> 1,
                     threw |-> FALSE, wthrew |-> wr.threw, uthrew |-> FALSE]
    ELSE [w |-> w, unlinks |-> {}, writes |-> 0, threw |-> FALSE,
          wthrew |-> FALSE, uthrew |-> FALSE]

\* deleteFileInfo as it would be without the existsSync test before unlinkSync
deleteFileInfo_Blind(w, id, unlinkOk, writeOk) ==
  IF id \in DOMAIN w.mem
    THEN LET path == w.mem[id].path
             tried == {path}
             w1 == IF unlinkOk THEN [w EXCEPT !.disk = w.disk \ tried] ELSE w
             w2 == [w1 EXCEPT !.mem = Remove(w1.mem, id)]
             wr == writeFileSync(w2, writeOk)
         IN  [w |-> wr.w, unlinks |-> tried, writes |-> 1, threw |-> FALSE,
              wthrew |-> wr.threw, uthrew |-> ~unlinkOk]
    ELSE [w |-> w, unlinks |-> {}, writes |-> 0, threw |-> FALSE,
          wthrew |-> FALSE, uthrew |-> FALSE]

deleteFileInfo(w, id, unlinkOk, writeOk) ==
  IF id \in DOMAIN w.mem
    THEN LET path == w.mem[id].path
             tried == IF existsSync(w, path) THEN {path} ELSE {}
             w1 == IF unlinkOk THEN [w EXCEPT !.disk = w.disk \ tried] ELSE w
             w2 == [w1 EXCEPT !.mem = Remove(w1.mem, id)]
             wr == writeFileSync(w2, writeOk)
         IN  [w |-> wr.w, unlinks |-> tried, writes |-> 1, threw |-> FALSE,
              wthrew |-> wr.threw, uthrew |-> tried # {} /\ ~unlinkOk]
    ELSE [w |-> w, unlinks |-> {}, writes |-> 0, threw |-> FALSE,
          wthrew |-> FALSE, uthrew |-> FALSE]

\* incrementDownloadCount as it would be without the try/catch around the
\* storage rewrite
incrementDownloadCount_NoCatch(w, id, writeOk) ==
  IF id \in DOMAIN w.mem
    THEN LET old == w.mem[id].downloadCount
             cnt == (IF old = Undefined THEN 0 ELSE old) + 1
             wr == writeFileSync([w EXCEPT !.mem[id].downloadCount = cnt], writeOk)
         IN  [w |-> wr.w, writes |-> 1, threw |-> wr.threw, wthrew |-> wr.threw]
    ELSE [w |-> w, writes |-> 0, threw |-> FALSE, wthrew |-> FALSE]

\* incrementDownloadCount as it would be if a download also pushed the
\* expiry back
incrementDownloadCount_Extend(w, id, writeOk) ==
  IF id \in DOMAIN w.mem
    THEN LET old == w.mem[id].downloadCount
             cnt == (IF old = Undefined THEN 0 ELSE old) + 1
             wr == writeFileSync([w EXCEPT !.mem[id].downloadCount = cnt,
                                           !.mem[id].expiryDate = @ + TTL],
                                 writeOk)
         IN  [w |-> wr.w, writes |-> 1, threw |-> FALSE, wthrew |-> wr.threw]
    ELSE [w |-> w, writes |-> 0, threw |-> FALSE, wthrew |-> FALSE]

incrementDownloadCount(w, id, writeOk) ==
  IF id \in DOMAIN w.mem
    THEN LET old == w.mem[id].downloadCount
             cnt == (IF old = Undefined THEN 0 ELSE old) + 1
             wr == writeFileSync([w EXCEPT !.mem[id].downloadCount = cnt], writeOk)
         IN  [w |-> wr.w, writes |-> 1, threw |-> FALSE, wthrew |-> wr.threw]
    ELSE [w |-> w, writes |-> 0, threw |-> FALSE, wthrew |-> FALSE]

\* crypto.timingSafeEqual(a, b): a RangeError when the byte lengths differ
timingSafeEqual(a, b) ==
  IF Len(a) # Len(b)
    THEN [ret |-> "none", threw |-> TRUE]
    ELSE [ret |-> IF a = b THEN "true" ELSE "false", threw |-> FALSE]

verifyFileAccessToken(w, id, token) ==
  IF id \notin DOMAIN w.mem
    THEN [ret |-> "false", threw |-> FALSE]
  ELSE IF w.mem[id].accessToken = Undefined
    THEN [ret |-> "false", threw |-> FALSE]
  ELSE timingSafeEqual(token, toHex(w.mem[id].accessToken))

RECURSIVE cleanupLoop(_, _, _, _, _)
\* Object.keys(fileInfoStorage).forEach(id => ...) of cleanupExpiredFiles;
\* an exception that leaves deleteFileInfo ends the loop
cleanupLoop(w, keys, t, unlinkOk, writeOk) ==
  IF keys = {}
    THEN [w |-> w, unlinks |-> {}, writes |-> 0, evicted |-> {},
          wthrew |-> FALSE, uthrew |-> FALSE, threw |-> FALSE]
    ELSE LET id == CHOOSE k \in keys : \A j \in keys : k <= j
             hit == t > w.mem[id].expiryDate
             d == deleteFileInfo(w, id, unlinkOk, writeOk)
             rest == cleanupLoop(IF hit THEN d.w ELSE w, keys \ {id}, t,
                                 unlinkOk, writeOk)
         IN  IF hit /\ d.threw
               THEN [w |-> d.w, unlinks |-> d.unlinks, writes |-> d.writes,
                     evicted |-> {}, wthrew |-> d.wthrew, uthrew |-> d.uthrew,
                     threw |-> TRUE]
               ELSE [w |-> rest.w,
                     unlinks |-> (IF hit THEN d.unlinks ELSE {}) \cup rest.unlinks,
                     writes |-> (IF hit THEN d.writes ELSE 0) + rest.writes,
                     evicted |-> (IF hit THEN {id} ELSE {}) \cup rest.evicted,
                     wthrew |-> (hit /\ d.wthrew) \/ rest.wthrew,
                     uthrew |-> (hit /\ d.uthrew) \/ rest.uthrew,
                     threw |-> rest.threw]

\* a JavaScript value returned to index.ts: <<>> is undefined, <<n>> the number n
JsUndefined == <<>>

\* cleanupExpiredFiles as it would be with a clock that runs ahead of the
\* clock the records were stamped with
cleanupExpiredFiles_ClockAhead(w, t, unlinkOk, writeOk) ==
  LET l == cleanupLoop(w, DOMAIN w.mem, t + TTL + 1, unlinkOk, writeOk)
  IN  [w |-> l.w, ret |-> JsUndefined, unlinks |-> l.unlinks,
       writes |-> l.writes, evicted |-> l.evicted, wthrew |-> l.wthrew,
       uthrew |-> l.uthrew, threw |-> l.threw]

\* cleanupExpiredFiles as it would be if it compared with the upload date
cleanupExpiredFiles_FromUpload(w, t, unlinkOk, writeOk) ==
  LET l == cleanupLoop(w, DOMAIN w.mem, t + TTL, unlinkOk, writeOk)
  IN  [w |-> l.w, ret |-> JsUndefined, unlinks |-> l.unlinks,
       writes |-> l.writes, evicted |-> l.evicted, wthrew |-> l.wthrew,
       uthrew |-> l.uthrew, threw |-> l.threw]

\* the function is declared (): void and has no return statement
cleanupExpiredFiles(w, t, unlinkOk, writeOk) ==
  LET l == cleanupLoop(w, DOMAIN w.mem, t, unlinkOk, writeOk)
  IN  [w |-> l.w, ret |-> JsUndefined, unlinks |-> l.unlinks,
       writes |-> l.writes, evicted |-> l.evicted, wthrew |-> l.wthrew,
       uthrew |-> l.uthrew, threw |-> l.threw]

\* deletedCount > 0 in index.ts: undefined > 0 is false
jsGreaterThanZero(v) == IF v = JsUndefined THEN FALSE ELSE v[1] > 0

\* ------------------------------------------------------------ handlers
\* req.file is absent
NoFile == 0

\* req.file as multer fills it in for the content stored under name p: the
\* client's file name, the random stored name, the declared type, the size
reqFile(p) ==
  [originalname |-> <<"name", p>>, filename |-> p, mimetype |-> "text/plain",
   size |-> p, path |-> p]

\* the FileInfo literal as it would be with an id that is generated once,
\* outside the handler
newFileInfo_FixedId(fileId, file, t) ==
  [id |-> 1, originalName |-> reqFile(file).originalname,
   filename |-> reqFile(file).filename, mimetype |-> reqFile(file).mimetype,
   size |-> reqFile(file).size, path |-> reqFile(file).path,
   uploadDate |-> t, expiryDate |-> t + TTL,
   downloadCount |-> 0, accessToken |-> Undefined]

\* the FileInfo literal of uploadFile
newFileInfo(fileId, file, t) ==
  [id |-> fileId, originalName |-> reqFile(file).originalname,
   filename |-> reqFile(file).filename, mimetype |-> reqFile(file).mimetype,
   size |-> reqFile(file).size, path |-> reqFile(file).path,
   uploadDate |-> t, expiryDate |-> t + TTL,
   downloadCount |-> 0, accessToken |-> Undefined]

\* A handler's result: called says that the handler called the registry,
\* error is the error member of the JSON body ("" when there is none), and
\* serialized is the set of FileInfo fields whose values are written into
\* the response.
uploadFile(w, file, fileId, token, t, writeOk, mkdirOk, retryOk) ==
  IF file = NoFile
    THEN [w |-> w, status |-> 400, ret |-> "none", threw |-> FALSE,
          writes |-> 0, wthrew |-> FALSE, called |-> FALSE,
          error |-> "No file uploaded", serialized |-> {}]
    ELSE LET s == saveFileInfo(w, newFileInfo(fileId, file, t), token,
                               writeOk, mkdirOk, retryOk)
             g == getFileInfoById(s.w, fileId, t, writeOk)
         IN  IF s.threw
               THEN [w |-> s.w, status |-> 500, ret |-> "none", threw |-> TRUE,
                     writes |-> s.writes, wthrew |-> TRUE, called |-> TRUE,
                     error |-> "Failed to upload file", serialized |-> {}]
             ELSE IF g.ret = "null"
               THEN [w |-> g.w, status |-> 500, ret |-> "null", threw |-> FALSE,
                     writes |-> s.writes + g.writes,
                     wthrew |-> s.wthrew \/ g.wthrew, called |-> TRUE,
                     error |-> "Failed to upload file", serialized |-> {}]
             ELSE [w |-> g.w, status |-> 201, ret |-> "info", threw |-> FALSE,
                   writes |-> s.writes + g.writes,
                   wthrew |-> s.wthrew \/ g.wthrew, called |-> TRUE,
                   error |-> "",
                   serialized |-> {"id", "originalName", "size", "expiryDate"}]

\* getFileInfo as it would be if it answered with the record itself
getFileInfo_WholeRecord(w, id, t, writeOk) ==
  IF ~validIdRegex(id)
    THEN [w |-> w, status |-> 400, ret |-> "none", writes |-> 0,
          wthrew |-> FALSE, called |-> FALSE,
          error |-> "Invalid file ID format", serialized |-> {}]
    ELSE LET g == getFileInfoById(w, id, t, writeOk)
         IN  IF g.ret = "null"
               THEN [w |-> g.w, status |-> 404, ret |-> "null",
                     writes |-> g.writes, wthrew |-> g.wthrew, called |-> TRUE,
                     error |-> "File not found or expired", serialized |-> {}]
               ELSE [w |-> g.w, status |-> 200, ret |-> "info",
                     writes |-> g.writes, wthrew |-> g.wthrew, called |-> TRUE,
                     error |-> "", serialized |-> DOMAIN g.w.mem[id]]

getFileInfo(w, id, t, writeOk) ==
  IF ~validIdRegex(id)
    THEN [w |-> w, status |-> 400, ret |-> "none", writes |-> 0,
          wthrew |-> FALSE, called |-> FALSE,
          error |-> "Invalid file ID format", serialized |-> {}]
    ELSE LET g == getFileInfoById(w, id, t, writeOk)
         IN  IF g.ret = "null"
               THEN [w |-> g.w, status |-> 404, ret |-> "null",
                     writes |-> g.writes, wthrew |-> g.wthrew, called |-> TRUE,
                     error |-> "File not found or expired", serialized |-> {}]
               ELSE [w |-> g.w, status |-> 200, ret |-> "info",
                     writes |-> g.writes, wthrew |-> g.wthrew, called |-> TRUE,
                     error |-> "",
                     serialized |-> {"id", "originalName", "size", "mimetype",
                                     "uploadDate", "expiryDate", "downloadCount"}]

\* The file system is shared with other processes: vanish says that the
\* content is removed between the existsSync of getFileInfoById and the
\* handler's own existsSync.  The 200 response carries originalName and
\* mimetype in its headers and the content bytes as its body.
downloadFile(w, id, t, vanish, unlinkOk, writeOk) ==
  IF ~validIdRegex(id)
    THEN [w |-> w, status |-> 400, ret |-> "none", writes |-> 0,
          wthrew |-> FALSE, unlinks |-> {}, stream |-> {}, called |-> FALSE,
          error |-> "Invalid file ID format", serialized |-> {}]
    ELSE LET g == getFileInfoById(w, id, t, writeOk)
         IN  IF g.ret = "null"
               THEN [w |-> g.w, status |-> 404, ret |-> "null",
                     writes |-> g.writes, wthrew |-> g.wthrew,
                     unlinks |-> {}, stream |-> {}, called |-> TRUE,
                     error |-> "File not found or expired", serialized |-> {}]
             ELSE LET w1 == IF vanish
                              THEN [g.w EXCEPT !.disk = @ \ {g.w.mem[id].path}]
                              ELSE g.w
                  IN  IF ~existsSync(w1, w1.mem[id].path)
                        THEN LET d == deleteFileInfo(w1, id, unlinkOk, writeOk)
                             IN  [w |-> d.w, status |-> 404, ret |-> "info",
                                  writes |-> d.writes, wthrew |-> d.wthrew,
                                  unlinks |-> d.unlinks, stream |-> {},
                                  called |-> TRUE,
                                  error |-> "File not found on server",
                                  serialized |-> {}]
                        ELSE LET c == incrementDownloadCount(w1, id, writeOk)
                             IN  [w |-> c.w, status |-> 200, ret |-> "info",
                                  writes |-> c.writes, wthrew |-> c.wthrew,
                                  unlinks |-> {},
                                  stream |-> {[id |-> id, path |-> c.w.mem[id].path]},
                                  called |-> TRUE, error |-> "",
                                  serialized |-> {"originalName", "mimetype"}]

\* --------------------------------------------------------- observation
\* the request a validation step was given
NoInput == [name |-> <<>>, mime |-> "", header |-> <<>>, oversize |-> FALSE]

NoObs == [input |-> NoInput, op |-> "init", id |-> 0, ret |-> "none", status |-> 0,
          threw |-> FALSE, found |-> FALSE, unlinks |-> {}, writes |-> 0,
          wthrew |-> FALSE, uthrew |-> FALSE, logged |-> FALSE,
          evicted |-> {}, count |-> JsUndefined, match |-> FALSE,
          touched |-> FALSE, error |-> "", serialized |-> {}]

Commit(w) ==
  /\ fileInfoStorage' = w.mem
  /\ storageFile' = w.file
  /\ disk' = w.disk
  /\ uploadDirExists' = w.dir

Init ==
  /\ fileInfoStorage = EmptyMap
  /\ storageFile = <<>>
  /\ disk = {}
  /\ uploadDirExists = TRUE
  /\ now = 0
  /\ pending = {}
  /\ created = EmptyMap
  /\ usedPaths = {}
  /\ streams = {}
  /\ delivered = [i \in Ids |-> 0]
  /\ scheduler = [initialDone |-> FALSE, intervalSet |-> FALSE,
                  crashed |-> FALSE]
  /\ obs = NoObs

\* uuidv4() and multer's random filename: a value never generated before
Fresh(all, used) == {x \in all \ used : \A y \in all \ used : x <= y}

\* ---------------------------------------------------------- environment
Tick ==
  /\ now < MaxTime
  /\ now' = now + 1
  /\ obs' = [NoObs EXCEPT !.op = "tick"]
  /\ UNCHANGED <<scheduler, fileInfoStorage, storageFile, disk, uploadDirExists, pending,
                 created, usedPaths, streams, delivered>>

\* multer's diskStorage writes the uploaded bytes under a fresh random name
MulterStore ==
  /\ uploadDirExists
  /\ pending = {}
  /\ \E p \in Fresh(Paths, usedPaths) :
       /\ disk' = disk \cup {p}
       /\ usedPaths' = usedPaths \cup {p}
       /\ pending' = {p}
  /\ obs' = [NoObs EXCEPT !.op = "multer"]
  /\ UNCHANGED <<scheduler, fileInfoStorage, storageFile, uploadDirExists, now, created,
                 streams, delivered>>

\* somebody outside the process removes a content file
EnvDeleteContent ==
  /\ \E p \in disk : disk' = disk \ {p}
  /\ obs' = [NoObs EXCEPT !.op = "envDelete"]
  /\ UNCHANGED <<scheduler, fileInfoStorage, storageFile, uploadDirExists, now, pending,
                 created, usedPaths, streams, delivered>>

\* ... or puts a removed content file back
EnvRestoreContent ==
  /\ uploadDirExists
  /\ \E p \in usedPaths \ disk : disk' = disk \cup {p}
  /\ obs' = [NoObs EXCEPT !.op = "envRestore"]
  /\ UNCHANGED <<scheduler, fileInfoStorage, storageFile, uploadDirExists, now, pending,
                 created, usedPaths, streams, delivered>>

\* ... or removes the whole upload directory, file-info.json included
EnvRemoveUploadDir ==
  /\ uploadDirExists
  /\ uploadDirExists' = FALSE
  /\ disk' = {}
  /\ storageFile' = <<>>
  /\ obs' = [NoObs EXCEPT !.op = "envRmdir"]
  /\ UNCHANGED <<scheduler, fileInfoStorage, now, pending, created, usedPaths, streams,
                 delivered>>

Environment ==
  \/ Tick
  \/ MulterStore
  \/ EnvDeleteContent
  \/ EnvRestoreContent
  \/ EnvRemoveUploadDir

\* ------------------------------------------------- the request handlers
\* the server takes requests once the callback of app.listen has returned
Listening == scheduler.intervalSet /\ ~scheduler.crashed

UploadFile ==
  \E file \in pending \cup {NoFile}, fileId \in Fresh(Ids, DOMAIN created),
     token \in Tokens, writeOk, mkdirOk, retryOk \in BOOLEAN :
    LET r == uploadFile(World, file, fileId, token, now, writeOk, mkdirOk, retryOk)
    IN  /\ Listening
        /\ Commit(r.w)
        /\ pending' = pending \ {file}
        /\ created' = IF file = NoFile THEN created
                      ELSE Put(created, fileId, newFileInfo(fileId, file, now))
        /\ obs' = [NoObs EXCEPT !.op = "uploadFile",
                                !.id = IF file = NoFile THEN 0 ELSE fileId,
                                !.ret = r.ret, !.status = r.status,
                                !.threw = r.threw, !.writes = r.writes,
                                !.wthrew = r.wthrew, !.touched = r.called,
                                !.error = r.error,
                                !.serialized = r.serialized]
        /\ UNCHANGED <<scheduler, now, usedPaths, streams, delivered>>

GetFileInfo ==
  \E id \in 0..MaxIds, writeOk \in BOOLEAN :
    LET r == getFileInfo(World, id, now, writeOk)
    IN  /\ Listening
        /\ Commit(r.w)
        /\ obs' = [NoObs EXCEPT !.op = "getFileInfo", !.id = id, !.ret = r.ret,
                                !.status = r.status, !.writes = r.writes,
                                !.found = id \in DOMAIN fileInfoStorage,
                                !.wthrew = r.wthrew, !.touched = r.called,
                                !.error = r.error,
                                !.serialized = r.serialized]
        /\ UNCHANGED <<scheduler, now, pending, created, usedPaths, streams, delivered>>

DownloadFile ==
  \E id \in 0..MaxIds, vanish, writeOk, unlinkOk \in BOOLEAN :
    LET r == downloadFile(World, id, now, vanish, unlinkOk, writeOk)
    IN  /\ Listening
        /\ Cardinality(streams) < MaxStreams
        /\ id \in DOMAIN fileInfoStorage
             => fileInfoStorage[id].downloadCount < MaxDownloads
        /\ Commit(r.w)
        /\ streams' = streams \cup r.stream
        /\ obs' = [NoObs EXCEPT !.op = "downloadFile", !.id = id, !.ret = r.ret,
                                !.status = r.status, !.writes = r.writes,
                                !.unlinks = r.unlinks,
                                !.found = id \in DOMAIN fileInfoStorage,
                                !.wthrew = r.wthrew, !.touched = r.called,
                                !.error = r.error,
                                !.serialized = r.serialized]
        /\ UNCHANGED <<scheduler, now, pending, created, usedPaths, delivered>>

\* the whole file reached the client
StreamEnd ==
  \E s \in streams :
    /\ streams' = streams \ {s}
    /\ delivered' = [delivered EXCEPT ![s.id] = @ + 1]
    /\ obs' = [NoObs EXCEPT !.op = "streamEnd", !.id = s.id]
    /\ UNCHANGED <<scheduler, fileInfoStorage, storageFile, disk, uploadDirExists, now,
                   pending, created, usedPaths>>

\* the read stream or the connection failed before the end
StreamError ==
  \E s \in streams :
    /\ streams' = streams \ {s}
    /\ obs' = [NoObs EXCEPT !.op = "streamError", !.id = s.id]
    /\ UNCHANGED <<scheduler, fileInfoStorage, storageFile, disk, uploadDirExists, now,
                   pending, created, usedPaths, delivered>>

\* The callback of app.listen in index.ts runs the initial cleanup and then
\* registers the recurring one; scheduler records how far it has come.
\* Neither call of cleanupExpiredFiles is inside a try block: an exception
\* that leaves it is uncaught and ends the process (crashed).
\* the initial cleanup call
InitialCleanup ==
  \E writeOk, unlinkOk \in BOOLEAN :
    LET r == cleanupExpiredFiles(World, now, unlinkOk, writeOk)
    IN  /\ ~scheduler.initialDone
        /\ ~scheduler.intervalSet
        /\ ~scheduler.crashed
        /\ Commit(r.w)
        /\ scheduler' = [scheduler EXCEPT !.initialDone = TRUE,
                                          !.crashed = r.threw]
        /\ obs' = [NoObs EXCEPT !.op = "initialCleanup", !.count = r.ret,
                                !.logged = jsGreaterThanZero(r.ret),
                                !.evicted = r.evicted, !.unlinks = r.unlinks,
                                !.writes = r.writes, !.wthrew = r.wthrew,
                                !.uthrew = r.uthrew, !.threw = r.threw]
        /\ UNCHANGED <<now, pending, created, usedPaths, streams, delivered>>

\* setInterval as it would be if it were called first in the callback
SetInterval_First ==
  /\ ~scheduler.intervalSet
  /\ ~scheduler.crashed
  /\ scheduler' = [scheduler EXCEPT !.intervalSet = TRUE]
  /\ obs' = [NoObs EXCEPT !.op = "setInterval"]
  /\ UNCHANGED <<fileInfoStorage, storageFile, disk, uploadDirExists, now,
                 pending, created, usedPaths, streams, delivered>>

\* setInterval(..., CLEANUP_INTERVAL), the statement after the initial cleanup
SetInterval ==
  /\ scheduler.initialDone
  /\ ~scheduler.intervalSet
  /\ ~scheduler.crashed
  /\ scheduler' = [scheduler EXCEPT !.intervalSet = TRUE]
  /\ obs' = [NoObs EXCEPT !.op = "setInterval"]
  /\ UNCHANGED <<fileInfoStorage, storageFile, disk, uploadDirExists, now,
                 pending, created, usedPaths, streams, delivered>>

\* the recurring cleanup that setInterval runs
Reaper ==
  \E writeOk, unlinkOk \in BOOLEAN :
    LET r == cleanupExpiredFiles(World, now, unlinkOk, writeOk)
    IN  /\ scheduler.intervalSet
        /\ ~scheduler.crashed
        /\ Commit(r.w)
        /\ scheduler' = [scheduler EXCEPT !.crashed = r.threw]
        /\ obs' = [NoObs EXCEPT !.op = "reaper", !.count = r.ret,
                                !.logged = jsGreaterThanZero(r.ret),
                                !.evicted = r.evicted, !.unlinks = r.unlinks,
                                !.writes = r.writes, !.wthrew = r.wthrew,
                                !.uthrew = r.uthrew, !.threw = r.threw]
        /\ UNCHANGED <<now, pending, created, usedPaths, streams, delivered>>

\* --------------------------------- direct calls of the exported functions
CallSaveFileInfo ==
  \E file \in pending, fileId \in Fresh(Ids, DOMAIN created), token \in Tokens,
     writeOk, mkdirOk, retryOk \in BOOLEAN :
    LET r == saveFileInfo(World, newFileInfo(fileId, file, now), token,
                          writeOk, mkdirOk, retryOk)
    IN  /\ Commit(r.w)
        /\ pending' = pending \ {file}
        /\ created' = Put(created, fileId, newFileInfo(fileId, file, now))
        /\ obs' = [NoObs EXCEPT !.op = "saveFileInfo", !.id = fileId,
                                !.threw = r.threw, !.writes = r.writes,
                                !.wthrew = r.wthrew]
        /\ UNCHANGED <<scheduler, now, usedPaths, streams, delivered>>

CallGetFileInfoById ==
  \E id \in 0..MaxIds, writeOk \in BOOLEAN :
    LET r == getFileInfoById(World, id, now, writeOk)
    IN  /\ Commit(r.w)
        /\ obs' = [NoObs EXCEPT !.op = "getFileInfoById", !.id = id,
                                !.ret = r.ret, !.writes = r.writes,
                                !.found = id \in DOMAIN fileInfoStorage,
                                !.wthrew = r.wthrew, !.touched = r.touched]
        /\ UNCHANGED <<scheduler, now, pending, created, usedPaths, streams, delivered>>

CallDeleteFileInfo ==
  \E id \in 0..MaxIds, writeOk, unlinkOk \in BOOLEAN :
    LET r == deleteFileInfo(World, id, unlinkOk, writeOk)
    IN  /\ Commit(r.w)
        /\ obs' = [NoObs EXCEPT !.op = "deleteFileInfo", !.id = id,
                                !.threw = r.threw, !.writes = r.writes,
                                !.unlinks = r.unlinks,
                                !.found = id \in DOMAIN fileInfoStorage,
                                !.wthrew = r.wthrew, !.uthrew = r.uthrew]
        /\ UNCHANGED <<scheduler, now, pending, created, usedPaths, streams, delivered>>

CallIncrementDownloadCount ==
  \E id \in 0..MaxIds, writeOk \in BOOLEAN :
    LET r == incrementDownloadCount(World, id, writeOk)
    IN  /\ id \in DOMAIN fileInfoStorage
             => fileInfoStorage[id].downloadCount < MaxDownloads
        /\ Commit(r.w)
        /\ obs' = [NoObs EXCEPT !.op = "incrementDownloadCount", !.id = id,
                                !.threw = r.threw, !.writes = r.writes,
                                !.found = id \in DOMAIN fileInfoStorage,
                                !.wthrew = r.wthrew]
        /\ UNCHANGED <<scheduler, now, pending, created, usedPaths, streams, delivered>>

CallVerifyFileAccessToken ==
  \E id \in 0..MaxIds, token \in Presented :
    LET r == verifyFileAccessToken(World, id, token)
    IN  /\ obs' = [NoObs EXCEPT !.op = "verifyFileAccessToken", !.id = id,
                                !.ret = r.ret, !.threw = r.threw,
                                !.found = id \in DOMAIN fileInfoStorage,
                                !.match = /\ id \in DOMAIN fileInfoStorage
                                          /\ token = toHex(fileInfoStorage[id].accessToken)]
        /\ UNCHANGED <<scheduler, fileInfoStorage, storageFile, disk, uploadDirExists,
                       now, pending, created, usedPaths, streams, delivered>>

CallCleanupExpiredFiles ==
  \E writeOk, unlinkOk \in BOOLEAN :
    LET r == cleanupExpiredFiles(World, now, unlinkOk, writeOk)
    IN  /\ Commit(r.w)
        /\ obs' = [NoObs EXCEPT !.op = "cleanupExpiredFiles", !.count = r.ret,
                                !.evicted = r.evicted, !.unlinks = r.unlinks,
                                !.writes = r.writes, !.wthrew = r.wthrew,
                                !.uthrew = r.uthrew]
        /\ UNCHANGED <<scheduler, now, pending, created, usedPaths, streams, delivered>>

\* the registry driven through its exported functions
Next ==
  \/ Environment
  \/ CallSaveFileInfo
  \/ CallGetFileInfoById
  \/ CallDeleteFileInfo
  \/ CallIncrementDownloadCount
  \/ CallVerifyFileAccessToken
  \/ CallCleanupExpiredFiles

Spec == Init /\ [][Next]_vars

\* lookups only: records are saved and looked up, no caller deletes and no
\* sweep runs.  The event loop runs every callback that is queued, which is
\* what the weak fairness says.
LazyNext ==
  \/ Environment
  \/ CallSaveFileInfo
  \/ CallGetFileInfoById

LazySpec == Init /\ [][LazyNext]_vars /\ WF_vars(LazyNext)

\* the two read endpoints and the lookup they share, called directly as well
ReadNext ==
  \/ Tick
  \/ MulterStore
  \/ EnvDeleteContent
  \/ InitialCleanup
  \/ SetInterval
  \/ UploadFile
  \/ GetFileInfo
  \/ DownloadFile
  \/ StreamEnd
  \/ CallGetFileInfoById

ReadSpec == Init /\ [][ReadNext]_vars

\* the program as deployed: handlers, streams and the cleanup task
AppNext ==
  \/ Environment
  \/ InitialCleanup
  \/ SetInterval
  \/ UploadFile
  \/ GetFileInfo
  \/ DownloadFile
  \/ StreamEnd
  \/ StreamError
  \/ Reaper

AppSpec == Init /\ [][AppNext]_vars

\* ---------------------------------------------------- crash and restart
\* the process is alive: no exception has ended it and nobody has killed it
Running == ~scheduler.crashed

\* what fs.writeFileSync leaves behind when the process dies inside it: the
\* file was opened with flag 'w' (truncated) and holds a proper prefix of
\* the new text, which is the document followed by the mark Cut here
Cut == "cut"

torn(doc) == <<doc, Cut>>

\* new Date(isoString)
fromISO(s) == s[2]

\* JSON.parse(data): throws on a text that is not a whole JSON document
parse(file) ==
  IF Len(file) = 1 THEN [threw |-> FALSE, value |-> file[1]]
                   ELSE [threw |-> TRUE, value |-> EmptyMap]

\* the initialisation of the module fileStorage: the registry starts empty
\* and is filled from file-info.json when that file exists, can be read and
\* parses; any exception leaves the registry as far as it was filled
load(w, readOk, mkdirOk) ==
  LET p == parse(w.file)
      rebuilt == [i \in DOMAIN p.value |->
                    [p.value[i] EXCEPT !.uploadDate = fromISO(@),
                                       !.expiryDate = fromISO(@)]]
  IN  IF w.file = <<>>
        THEN [w |-> [w EXCEPT !.mem = EmptyMap], logged |-> FALSE,
              threw |-> FALSE]
      ELSE IF readOk /\ ~p.threw
        THEN [w |-> [w EXCEPT !.mem = rebuilt], logged |-> FALSE,
              threw |-> FALSE]
      ELSE IF w.dir
        THEN [w |-> [w EXCEPT !.mem = EmptyMap], logged |-> TRUE,
              threw |-> FALSE]
      ELSE [w |-> [w EXCEPT !.mem = EmptyMap, !.dir = mkdirOk],
            logged |-> TRUE, threw |-> ~mkdirOk]

\* the process is killed between two callbacks
Kill ==
  /\ Running
  /\ scheduler' = [scheduler EXCEPT !.crashed = TRUE]
  /\ obs' = [NoObs EXCEPT !.op = "kill"]
  /\ UNCHANGED <<fileInfoStorage, storageFile, disk, uploadDirExists, now,
                 pending, created, usedPaths, streams, delivered>>

\* the process is killed inside the writeFileSync of saveFileInfo
CrashInSave ==
  \E file \in pending, fileId \in Fresh(Ids, DOMAIN created), token \in Tokens :
    LET r == saveFileInfo(World, newFileInfo(fileId, file, now), token,
                          TRUE, TRUE, TRUE)
    IN  /\ Running
        /\ uploadDirExists
        /\ Commit([r.w EXCEPT !.file = torn(stringify(r.w.mem))])
        /\ pending' = pending \ {file}
        /\ created' = Put(created, fileId, newFileInfo(fileId, file, now))
        /\ scheduler' = [scheduler EXCEPT !.crashed = TRUE]
        /\ obs' = [NoObs EXCEPT !.op = "crashInWrite", !.id = fileId,
                                !.writes = 1]
        /\ UNCHANGED <<now, usedPaths, streams, delivered>>

\* ... inside the writeFileSync of incrementDownloadCount
CrashInIncrement ==
  \E id \in DOMAIN fileInfoStorage :
    LET r == incrementDownloadCount(World, id, TRUE)
    IN  /\ Running
        /\ uploadDirExists
        /\ fileInfoStorage[id].downloadCount < MaxDownloads
        /\ Commit([r.w EXCEPT !.file = torn(stringify(r.w.mem))])
        /\ scheduler' = [scheduler EXCEPT !.crashed = TRUE]
        /\ obs' = [NoObs EXCEPT !.op = "crashInWrite", !.id = id,
                                !.found = TRUE, !.writes = 1]
        /\ UNCHANGED <<now, pending, created, usedPaths, streams, delivered>>

\* ... inside the writeFileSync of deleteFileInfo
CrashInDelete ==
  \E id \in DOMAIN fileInfoStorage, unlinkOk \in BOOLEAN :
    LET r == deleteFileInfo(World, id, unlinkOk, TRUE)
    IN  /\ Running
        /\ uploadDirExists
        /\ Commit([r.w EXCEPT !.file = torn(stringify(r.w.mem))])
        /\ scheduler' = [scheduler EXCEPT !.crashed = TRUE]
        /\ obs' = [NoObs EXCEPT !.op = "crashInWrite", !.id = id,
                                !.found = TRUE, !.writes = 1,
                                !.unlinks = r.unlinks, !.uthrew = r.uthrew]
        /\ UNCHANGED <<now, pending, created, usedPaths, streams, delivered>>

\* the process is started again: its memory is gone, the module
\* initialisation of fileStorage runs
Restart ==
  \E readOk, mkdirOk \in BOOLEAN :
    LET r == load(World, readOk, mkdirOk)
    IN  /\ ~Running
        /\ Commit(r.w)
        /\ pending' = {}
        /\ streams' = {}
        /\ scheduler' = [initialDone |-> FALSE, intervalSet |-> FALSE,
                         crashed |-> r.threw]
        /\ obs' = [NoObs EXCEPT !.op = "restart", !.logged = r.logged,
                                !.threw = r.threw]
        /\ UNCHANGED <<now, created, usedPaths, delivered>>

\* the registry driven through its exported functions by a process that
\* can be killed, also inside a write, and started again
RestartNext ==
  \/ Environment
  \/ Running /\ CallSaveFileInfo
  \/ Running /\ CallGetFileInfoById
  \/ Running /\ CallDeleteFileInfo
  \/ Running /\ CallIncrementDownloadCount
  \/ Running /\ CallCleanupExpiredFiles
  \/ Kill
  \/ CrashInSave
  \/ CrashInIncrement
  \/ CrashInDelete
  \/ Restart

RestartSpec == Init /\ [][RestartNext]_vars

\* ------------------------------------------- upload validation, errors
\* file names are modelled as the sequence of their parts between dots
FileNames == {<<"invoice", "pdf">>, <<"setup", "exe">>, <<"SETUP", "EXE">>,
              <<"README">>, <<"a:b", "pdf">>}

MimeTypes == {"application/pdf", "application/x-msdownload"}

\* the first bytes of a content file: PE, ELF, Mach-O, PDF
MZ == <<77, 90, 144, 0>>

ELF == <<127, 69, 76, 70>>

MachO == <<254, 237, 250, 206>>

Headers == {MZ, ELF, MachO, <<37, 80, 68, 70>>}

\* String.prototype.toLowerCase on the name parts of the model
toLowerCase(str) ==
  IF str = "EXE" THEN "exe" ELSE IF str = "SETUP" THEN "setup" ELSE str

\* path.extname(name).toLowerCase().replace('.', '')
extension(name) == IF Len(name) >= 2 THEN toLowerCase(name[Len(name)]) ELSE ""

\* the members of the source's list that the model's names can have
DANGEROUS_EXTENSIONS == {"exe", "dll", "bat", "js", "php", "sh"}

\* the error objects of the program: name, statusCode, code, message
NoError == [name |-> "", statusCode |-> Undefined, code |-> "", message |-> ""]

FileUploadError(message, statusCode) ==
  [name |-> "FileUploadError", statusCode |-> statusCode, code |-> "",
   message |-> message]

Error(message) ==
  [name |-> "Error", statusCode |-> Undefined, code |-> "", message |-> message]

MulterError(code) ==
  [name |-> "MulterError", statusCode |-> Undefined, code |-> code,
   message |-> "File too large"]

\* sanitizeFile(filePath, originalName, mimeType): err is what it throws,
\* NoError when it returns the SanitizedFileInfo.  mimeType is only copied
\* into the result and the content is only hashed
sanitizeFile(w, filePath, originalName, mimeType, isFile, unlinkOk, hashOk) ==
  IF ~existsSync(w, filePath)
    THEN [w |-> w, err |-> FileUploadError("File not found", 404),
          unlinks |-> {}, uthrew |-> FALSE]
  ELSE IF ~isFile
    THEN [w |-> w, err |-> FileUploadError("Not a valid file", 400),
          unlinks |-> {}, uthrew |-> FALSE]
  ELSE IF extension(originalName) \in DANGEROUS_EXTENSIONS
    THEN [w |-> IF unlinkOk THEN [w EXCEPT !.disk = @ \ {filePath}] ELSE w,
          err |-> FileUploadError("File type not allowed for security reasons", 400),
          unlinks |-> IF unlinkOk THEN {filePath} ELSE {},
          uthrew |-> ~unlinkOk]
  ELSE IF ~hashOk
    THEN [w |-> w, err |-> Error("read error"), unlinks |-> {},
          uthrew |-> FALSE]
  ELSE [w |-> w, err |-> NoError, unlinks |-> {}, uthrew |-> FALSE]

\* buffer.toString('hex', 0, n) === signature, on a zero-filled buffer
startsWith(header, signature) ==
  /\ Len(header) >= Len(signature)
  /\ SubSeq(header, 1, Len(signature)) = signature

\* detectMaliciousFile(filePath): the signatures of PE, ELF and Mach-O
\* (four byte orders); a file that cannot be read counts as malicious
detectMaliciousFile(header, readOk) ==
  IF ~readOk THEN TRUE
  ELSE \/ startsWith(header, <<77, 90>>)
       \/ startsWith(header, ELF)
       \/ header \in {MachO, <<206, 250, 237, 254>>, <<254, 237, 250, 207>>,
                      <<207, 250, 237, 254>>}

\* the members of ALLOWED_MIME_TYPES that the model's requests can declare
ALLOWED_MIME_TYPES == {"application/pdf", "image/png", "text/plain"}

\* /[\\/:*?"<>|]/.test(filename)
invalidCharacters(name) == \E i \in 1..Len(name) : name[i] = "a:b"

\* the members of fileFilter's list that the model's names can have
dangerousExtensions == {"exe", "bat", "cmd", "sh", "php", "js", "dll"}

\* fileFilter(req, file, cb): the error handed to cb, NoError for cb(null, true)
fileFilter(file) ==
  IF file.mimetype \notin ALLOWED_MIME_TYPES
    THEN Error("File type not allowed")
  ELSE IF invalidCharacters(file.originalname)
    THEN Error("Filename contains invalid characters")
  ELSE IF extension(file.originalname) \in dangerousExtensions
    THEN Error("File extension not allowed for security reasons")
  ELSE NoError

\* upload.single('file'): the filter runs before the bytes are stored, the
\* size limit (limits.fileSize) is hit while they are stored
upload(file, oversize) ==
  IF fileFilter(file) # NoError THEN fileFilter(file)
  ELSE IF oversize THEN MulterError("LIMIT_FILE_SIZE")
  ELSE NoError

\* validateFileId: the status it answers, 0 when it calls next()
validateFileId(id) == IF ~validIdRegex(id) THEN 400 ELSE 0

\* uploadErrorHandler: the status it answers, 0 when it calls next(err)
uploadErrorHandler(err) ==
  IF err.name = "MulterError" THEN 400
  ELSE IF err.name = "FileUploadError" THEN err.statusCode
  ELSE 0

\* err.message.includes('CORS')
includesCORS(message) == message = "CORS policy violation"

\* errorHandler of the security middlewares: it answers every error
errorHandler(err) == IF includesCORS(err.message) THEN 403 ELSE 500

\* app.use(uploadErrorHandler); app.use(errorHandler); the third handler,
\* globalErrorHandler, is never reached because errorHandler never calls next
errorChain(err) ==
  IF uploadErrorHandler(err) # 0 THEN uploadErrorHandler(err)
                                 ELSE errorHandler(err)

\* POST /api/upload up to the handler: multer with its filter and limit,
\* then the error chain for a rejected upload
UploadRequest ==
  \E name \in FileNames, mime \in MimeTypes, oversize \in BOOLEAN :
    LET file == [originalname |-> name, mimetype |-> mime]
        err == upload(file, oversize)
    IN  IF err = NoError
          THEN MulterStore
          ELSE /\ obs' = [NoObs EXCEPT !.op = "uploadRejected",
                                       !.status = errorChain(err),
                                       !.error = err.message,
                                       !.ret = err.name,
                                       !.input = [name |-> name, mime |-> mime,
                                                  header |-> <<>>,
                                                  oversize |-> oversize]]
               /\ UNCHANGED <<scheduler, fileInfoStorage, storageFile, disk,
                              uploadDirExists, now, pending, created,
                              usedPaths, streams, delivered>>

\* GET /api/info/:id and /api/download/:id up to the handler
IdRequest ==
  \E id \in 0..MaxIds :
    /\ validateFileId(id) # 0
    /\ obs' = [NoObs EXCEPT !.op = "idRejected", !.id = id,
                            !.status = validateFileId(id)]
    /\ UNCHANGED <<scheduler, fileInfoStorage, storageFile, disk,
                   uploadDirExists, now, pending, created, usedPaths,
                   streams, delivered>>

CallSanitizeFile ==
  \E filePath \in Paths, name \in FileNames, mime \in MimeTypes,
     header \in Headers, isFile, unlinkOk, hashOk \in BOOLEAN :
    LET r == sanitizeFile(World, filePath, name, mime, isFile, unlinkOk, hashOk)
    IN  /\ Commit(r.w)
        /\ pending' = pending \ r.unlinks
        /\ obs' = [NoObs EXCEPT !.op = "sanitizeFile", !.id = filePath,
                                !.threw = r.err # NoError,
                                !.ret = r.err.name,
                                !.status = r.err.statusCode,
                                !.error = r.err.message,
                                !.found = existsSync(World, filePath),
                                !.unlinks = r.unlinks, !.uthrew = r.uthrew,
                                !.input = [name |-> name, mime |-> mime,
                                           header |-> header,
                                           oversize |-> FALSE]]
        /\ UNCHANGED <<scheduler, now, created, usedPaths, streams, delivered>>

CallDetectMaliciousFile ==
  \E header \in Headers, readOk \in BOOLEAN :
    /\ obs' = [NoObs EXCEPT !.op = "detectMaliciousFile",
                            !.ret = IF detectMaliciousFile(header, readOk)
                                      THEN "true" ELSE "false",
                            !.wthrew = ~readOk,
                            !.input = [NoInput EXCEPT !.header = header]]
    /\ UNCHANGED <<scheduler, fileInfoStorage, storageFile, disk,
                   uploadDirExists, now, pending, created, usedPaths,
                   streams, delivered>>

\* the validation of uploads and requests and the error-handling chain
ValidationNext ==
  \/ EnvDeleteContent
  \/ UploadRequest
  \/ IdRequest
  \/ CallSanitizeFile
  \/ CallDetectMaliciousFile

ValidationSpec == Init /\ [][ValidationNext]_vars

\* ================================================================ claims
\* the registry map and file-info.json agree after a rewrite that succeeded
Persisted == storageFile = <<stringify(fileInfoStorage)>>

\* C1: a record created at T, still registered and with its content present,
\* is returned by getFileInfoById at every time before T + TTL and is absent
\* at every time from T + TTL on, the instant T + TTL included.
C1_ExpiryMonotonicity ==
  (obs.op = "getFileInfoById" /\ obs.found /\ created[obs.id].path \in disk)
    => (obs.ret = "info" <=> now < created[obs.id].expiryDate)

\* C2: a lookup that finds a non-expired record without its content returns
\* null and removes the record; an id once removed is never registered again,
\* so every later lookup of it returns null, also with the content put back.
C2_SelfHeal ==
  [][\A id \in Ids :
       /\ ( /\ obs'.op = "getFileInfo" /\ obs'.id = id
            /\ id \in DOMAIN fileInfoStorage
            /\ ~isFileExpired(fileInfoStorage[id], now)
            /\ fileInfoStorage[id].path \notin disk )
          => (obs'.ret = "null" /\ id \notin DOMAIN fileInfoStorage')
       /\ (id \in DOMAIN created /\ id \notin DOMAIN fileInfoStorage)
          => /\ id \notin DOMAIN fileInfoStorage'
             /\ (obs'.op = "getFileInfo" /\ obs'.id = id) => obs'.ret = "null"
    ]_vars

\* a lookup of a self-healed id answers null although the content is back
\* and the record would not have expired yet
C2_Witness ==
  /\ obs.op = "getFileInfo" /\ obs.ret = "null" /\ ~obs.found
  /\ obs.id \in DOMAIN created
  /\ created[obs.id].path \in disk
  /\ ~isFileExpired(created[obs.id], now)

\* C3: when cleanupExpiredFiles returns, no record with now >= expiryDate is
\* left in the registry.
C3_SweepEvictsAllExpired ==
  obs.op = "cleanupExpiredFiles"
    => \A id \in DOMAIN fileInfoStorage : ~(now >= fileInfoStorage[id].expiryDate)

\* C4: cleanupExpiredFiles returns the number of records it evicted and the
\* cleanup task logs that count exactly when it is greater than zero.
C4_SweepReturnsCount ==
  obs.op = "reaper"
    => /\ obs.count = <<Cardinality(obs.evicted)>>
       /\ obs.logged <=> Cardinality(obs.evicted) > 0

\* C5: after deleteFileInfo(id) the id is absent, and deleteFileInfo on an
\* absent id throws nothing, unlinks nothing, writes nothing and changes
\* nothing.
C5_EvictIdempotent ==
  [][obs'.op = "deleteFileInfo"
       => /\ obs'.id \notin DOMAIN fileInfoStorage'
          /\ obs'.id \notin DOMAIN fileInfoStorage
               => /\ ~obs'.threw /\ obs'.unlinks = {} /\ obs'.writes = 0
                  /\ UNCHANGED <<fileInfoStorage, storageFile, disk,
                                 uploadDirExists>>
    ]_vars

\* a second deleteFileInfo of an id that was registered before
C5_Witness ==
  /\ obs.op = "deleteFileInfo" /\ ~obs.found
  /\ obs.id \in DOMAIN created
  /\ obs.writes = 0

\* C6: when unlinkSync throws inside deleteFileInfo(id) nothing is thrown to
\* the caller, the record is removed and file-info.json is rewritten (and
\* equals the map when that rewrite does not fail).
C6_UnlinkFailureContained ==
  (obs.op = "deleteFileInfo" /\ obs.uthrew)
    => /\ ~obs.threw
       /\ obs.id \notin DOMAIN fileInfoStorage
       /\ obs.writes = 1
       /\ ~obs.wthrew => Persisted

\* an eviction whose unlink failed: the content is still on disk
C6_Witness ==
  /\ obs.op = "deleteFileInfo" /\ obs.uthrew /\ ~obs.wthrew
  /\ created[obs.id].path \in disk

\* C7: saveFileInfo never returns normally while the record is missing from
\* file-info.json.
C7_SaveThrowsWhenNotPersisted ==
  (obs.op = "saveFileInfo" /\ ~obs.threw)
    => (storageFile # <<>> /\ obs.id \in DOMAIN storageFile[1])

\* C8: an upload answered 500 leaves neither the content file nor a record
\* of the new id behind.
C8_FailedUploadLeavesNothing ==
  (obs.op = "uploadFile" /\ obs.status = 500)
    => /\ obs.id \notin DOMAIN fileInfoStorage
       /\ created[obs.id].path \notin disk

\* C9: incrementDownloadCount never throws; on a registered id it raises
\* downloadCount by exactly 1, changes nothing else of the map and rewrites
\* file-info.json; on an absent id it changes nothing.
C9_IncrementByOne ==
  [][obs'.op = "incrementDownloadCount"
       => /\ ~obs'.threw
          /\ IF obs'.id \in DOMAIN fileInfoStorage
               THEN /\ fileInfoStorage' =
                         [fileInfoStorage EXCEPT ![obs'.id].downloadCount = @ + 1]
                    /\ obs'.writes = 1
                    /\ ~obs'.wthrew => storageFile' = <<stringify(fileInfoStorage')>>
               ELSE /\ obs'.writes = 0
                    /\ UNCHANGED <<fileInfoStorage, storageFile, disk,
                                   uploadDirExists>>
    ]_vars

\* an increment whose rewrite of file-info.json failed
C9_Witness ==
  /\ obs.op = "incrementDownloadCount" /\ obs.found /\ obs.wthrew
  /\ fileInfoStorage[obs.id].downloadCount = 1

\* C10: once no stream of an id is in flight, its downloadCount equals the
\* number of streams of that id that were delivered.
C10_CountEqualsDelivered ==
  \A id \in DOMAIN fileInfoStorage :
    (\A s \in streams : s.id # id)
      => fileInfoStorage[id].downloadCount = delivered[id]

\* the creation values of the record an operation was called for say the
\* record is stale: past its expiryDate, or its content is not on disk
Stale(id) ==
  isFileExpired(created[id], now) \/ created[id].path \notin disk

\* C11: verifyFileAccessToken never throws, and it returns true exactly when
\* a record exists for the id and the presented token is the stored one;
\* every other token, of whatever length, gets false.
C11_VerifyReturnsBoolean ==
  obs.op = "verifyFileAccessToken"
    => /\ ~obs.threw
       /\ obs.ret = "true" <=> (obs.found /\ obs.match)
       /\ obs.ret = "false" <=> ~(obs.found /\ obs.match)

\* C12: for a registered record that is past its expiryDate or whose content
\* is missing, getFileInfoById returns null and verifyFileAccessToken
\* returns false also for the stored token.
C12_StaleIsAbsentOnEveryReadPath ==
  /\ (obs.op = "getFileInfoById" /\ obs.found /\ Stale(obs.id))
       => obs.ret = "null"
  /\ (obs.op = "verifyFileAccessToken" /\ obs.found /\ obs.match /\ Stale(obs.id))
       => obs.ret = "false"

\* C13: a lookup that finds a record past its expiryDate leads to the
\* removal of the record's metadata and content, with no sweep running.
C13_LazyExpiry ==
  \A id \in Ids :
    [](  (/\ obs.op = "getFileInfoById" /\ obs.id = id /\ obs.found
          /\ obs.ret = "null"
          /\ isFileExpired(created[id], now))
      => <>(/\ id \in DOMAIN created
            /\ id \notin DOMAIN fileInfoStorage
            /\ created[id].path \notin disk))

\* C14: for an id the format test rejects, getFileInfoById returns null
\* without reading the map or the file system and changes nothing, and
\* getFileInfo and downloadFile answer 400 'Invalid file ID format' without
\* calling the registry and change nothing.
C14_MalformedIdTouchesNothing ==
  [][ (~validIdRegex(obs'.id)
        /\ obs'.op \in {"getFileInfoById", "getFileInfo", "downloadFile"})
      => /\ ~obs'.touched
         /\ obs'.writes = 0
         /\ UNCHANGED <<fileInfoStorage, storageFile, disk, uploadDirExists,
                        streams>>
         /\ obs'.op = "getFileInfoById" => obs'.ret = "null"
         /\ obs'.op \in {"getFileInfo", "downloadFile"}
              => obs'.status = 400 /\ obs'.error = "Invalid file ID format" ]_vars

C14_Witness ==
  /\ obs.op = "getFileInfoById"
  /\ ~validIdRegex(obs.id)
  /\ obs.ret = "null"
  /\ DOMAIN fileInfoStorage # {}

\* a created id that no lookup can return: its record is gone from the map
\* or past its expiryDate
Dead(id) ==
  /\ id \in DOMAIN created
  /\ id \notin DOMAIN fileInfoStorage \/ isFileExpired(fileInfoStorage[id], now)

\* C15: once getFileInfoById has returned null for a created id, every
\* later getFileInfoById of that id returns null.  Stated step by step: a
\* null lookup of a created id leaves the id dead, no step makes a dead id
\* live again, and a lookup of a dead id returns null.
C15_AbsenceIsPermanent ==
  [][ \A id \in Ids :
        /\ (obs'.op = "getFileInfoById" /\ obs'.id = id /\ obs'.ret = "null"
              /\ id \in DOMAIN created)
             => Dead(id)'
        /\ Dead(id) => Dead(id)'
        /\ (Dead(id) /\ obs'.op = "getFileInfoById" /\ obs'.id = id)
             => obs'.ret = "null" ]_vars

C15_Witness ==
  /\ obs.op = "getFileInfoById"
  /\ obs.ret = "null"
  /\ obs.id \in DOMAIN created
  /\ obs.id \notin DOMAIN fileInfoStorage
  /\ created[obs.id].path \in disk
  /\ ~isFileExpired(created[obs.id], now)

CreationFields ==
  {"id", "originalName", "filename", "mimetype", "size", "path",
   "uploadDate", "expiryDate"}

\* C17: for as long as a record exists its originalName, mimetype, size,
\* filename, path, uploadDate and expiryDate are the ones it was built with,
\* its accessToken is the one saveFileInfo gave it, and its downloadCount is
\* a natural number that no step lowers.
C17_RecordImmutability ==
  [][ /\ \A id \in DOMAIN fileInfoStorage' :
           /\ \A f \in CreationFields :
                fileInfoStorage'[id][f] = created'[id][f]
           /\ fileInfoStorage'[id].accessToken \in Tokens
           /\ fileInfoStorage'[id].downloadCount \in Nat
      /\ \A id \in DOMAIN fileInfoStorage \cap DOMAIN fileInfoStorage' :
           /\ fileInfoStorage'[id].accessToken = fileInfoStorage[id].accessToken
           /\ fileInfoStorage'[id].downloadCount >= fileInfoStorage[id].downloadCount
    ]_vars

C17_Witness ==
  /\ obs.op = "incrementDownloadCount"
  /\ obs.id \in DOMAIN fileInfoStorage
  /\ fileInfoStorage[obs.id].downloadCount = 1
  /\ now > created[obs.id].uploadDate

\* the FileInfo fields a client may see
PublicFields ==
  {"id", "originalName", "mimetype", "size", "uploadDate", "expiryDate",
   "downloadCount"}

\* C18: no response of uploadFile, getFileInfo or downloadFile carries a
\* record's filename, path or accessToken; what a response carries of a
\* record is among id, originalName, mimetype, size, uploadDate, expiryDate
\* and downloadCount.
C18_NoStorageKeyOrTokenInResponse ==
  obs.op \in {"uploadFile", "getFileInfo", "downloadFile"}
    => /\ obs.serialized \cap {"filename", "path", "accessToken"} = {}
       /\ obs.serialized \subseteq PublicFields

C18_Witness ==
  /\ obs.op = "getFileInfo"
  /\ obs.status = 200
  /\ "originalName" \in obs.serialized
  /\ fileInfoStorage[obs.id].accessToken \in Tokens

\* C19: for a well-formed id, every answer of getFileInfo and downloadFile
\* that is not the record or its content is the one not-found answer: 404
\* with the body 'File not found or expired', whatever made the record
\* absent.
C19_AbsentOutcomesIndistinguishable ==
  (obs.op \in {"getFileInfo", "downloadFile"} /\ validIdRegex(obs.id)
     /\ obs.status # 200)
    => obs.status = 404 /\ obs.error = "File not found or expired"

C21_FailedSweepKeepsSchedule ==
  (obs.op \in {"initialCleanup", "reaper"} /\ (obs.uthrew \/ obs.wthrew))
    => /\ ~obs.threw
       /\ ~scheduler.crashed
       /\ scheduler.initialDone
       /\ obs.op = "reaper" => scheduler.intervalSet

C21_Witness ==
  /\ obs.op = "reaper"
  /\ obs.uthrew
  /\ obs.unlinks # {}
  /\ scheduler.intervalSet
  /\ ~scheduler.crashed

\* the operations of the program, as opposed to the steps of its environment
ProgramOps ==
  {"uploadFile", "getFileInfo", "downloadFile", "streamEnd", "streamError",
   "initialCleanup", "setInterval", "reaper"}

\* C22: in every step of a handler or of the reaper, a record's counter is
\* raised only while the record is registered and its content is on disk,
\* an unlink is only tried on content that is there, and the record whose
\* content an unlink was tried on is gone from the registry after the step,
\* so that no second unlink of the same content can follow.
C22_PerIdAtomicity ==
  [][ obs'.op \in ProgramOps =>
        /\ \A id \in DOMAIN fileInfoStorage \cap DOMAIN fileInfoStorage' :
             fileInfoStorage'[id].downloadCount > fileInfoStorage[id].downloadCount
               => fileInfoStorage'[id].path \in disk'
        /\ obs'.unlinks \subseteq disk
        /\ \A id \in DOMAIN fileInfoStorage :
             fileInfoStorage[id].path \in obs'.unlinks
               => id \notin DOMAIN fileInfoStorage' ]_vars

C22_Witness ==
  /\ obs.op = "reaper"
  /\ obs.unlinks # {}
  /\ \E id \in obs.evicted : delivered[id] >= 1

\* C23: a metadata write cut short by a crash leaves a document from which
\* a restart loads the complete old mapping or the complete new one
C23_InterruptedWriteKeepsDocument ==
  [][ obs'.op = "crashInWrite" =>
        \/ load(World', TRUE, TRUE).w.mem = load(World, TRUE, TRUE).w.mem
        \/ load(World', TRUE, TRUE).w.mem = fileInfoStorage' ]_vars

\* C30: the registry loaded at process start holds exactly the records that
\* were in memory when the process stopped (a process stopped between two
\* callbacks, the upload directory in place, the load itself not failing)
C30_RestartKeepsRegistry ==
  [][ (obs.op = "kill" /\ obs'.op = "restart" /\ uploadDirExists /\ ~obs'.logged)
        => fileInfoStorage' = fileInfoStorage ]_vars

\* C24: every mutation of the registry (saveFileInfo, incrementDownloadCount,
\* deleteFileInfo, the self-heal of getFileInfoById) that returns leaves
\* file-info.json equal to the whole in-memory mapping, full records
MutationOps ==
  {"saveFileInfo", "incrementDownloadCount", "deleteFileInfo", "getFileInfoById"}

C24_MutationRewritesWholeMapping ==
  [][ (/\ obs'.op \in MutationOps
       /\ ~obs'.threw
       /\ fileInfoStorage' # fileInfoStorage)
        => storageFile' = <<stringify(fileInfoStorage')>> ]_vars

\* C25: sanitizeFile rejects an upload whenever the extension of the declared
\* name is in the denylist, or the declared MIME type is not in the
\* allow-list, or the leading bytes are a native-executable signature
C25_SanitizeRejectsEachCause ==
  (/\ obs.op = "sanitizeFile"
   /\ \/ extension(obs.input.name) \in DANGEROUS_EXTENSIONS
      \/ obs.input.mime \notin ALLOWED_MIME_TYPES
      \/ detectMaliciousFile(obs.input.header, TRUE))
    => obs.threw

\* C26: every validation failure of an upload or of a request ends in a
\* 4xx response after the error-handling chain, never in a 5xx one
C26_ValidationFailureIs4xx ==
  obs.op \in {"uploadRejected", "idRejected"} => obs.status \in 400..499

\* C27: sweep frame: cleanupExpiredFiles leaves every record that is not
\* expired at the time of the sweep in the registry with all fields as they
\* were, keeps its content, and a lookup that returned it before returns it
\* after; a sweep that finds no expired record deletes no content and
\* writes no metadata
NotExpired(id) == now <= fileInfoStorage[id].expiryDate

C27_SweepFrame ==
  [][ obs'.op = "cleanupExpiredFiles" =>
        /\ \A id \in DOMAIN fileInfoStorage :
             NotExpired(id) =>
               /\ id \in DOMAIN fileInfoStorage'
               /\ fileInfoStorage'[id] = fileInfoStorage[id]
               /\ fileInfoStorage[id].path \in disk
                    => fileInfoStorage[id].path \in disk'
               /\ getFileInfoById(World, id, now, TRUE).ret = "info"
                    => getFileInfoById(World', id, now', TRUE).ret = "info"
        /\ (\A id \in DOMAIN fileInfoStorage : NotExpired(id)) =>
             /\ obs'.unlinks = {} /\ obs'.writes = 0
             /\ disk' = disk /\ storageFile' = storageFile
             /\ fileInfoStorage' = fileInfoStorage ]_vars

\* a sweep that evicted an expired record and left a live one, content
\* present, beside it
C27_Witness ==
  /\ obs.op = "cleanupExpiredFiles"
  /\ obs.evicted # {}
  /\ \E id \in DOMAIN fileInfoStorage :
       /\ now <= fileInfoStorage[id].expiryDate
       /\ fileInfoStorage[id].path \in disk

C29_StreamNotCutOffByEviction ==
  [][ obs'.op \in ProgramOps =>
        \A s \in streams \cap streams' :
          /\ ~(s.path \in obs'.unlinks /\ s.path \notin disk')
          /\ (s.id \in DOMAIN fileInfoStorage /\ s.path \in disk')
               => s.id \in DOMAIN fileInfoStorage' ]_vars

====
